---- MODULE Spec2Model ----
(***************************************************************************)
(* nano-vectordb-rs: the similarity engine (src/src/lib.rs) as a state     *)
(* machine.  A Float (f32) is a fixed-point integer: the integer n stands  *)
(* for the number n / Scale, and every product and quotient is rounded     *)
(* toward zero to that resolution, as f32 arithmetic rounds to its own.    *)
(***************************************************************************)
EXTENDS Integers, Sequences, FiniteSets, TLC

(***************************************************************************)
(* Bounds of the model.                                                    *)
(***************************************************************************)
\* the embedding_dim the engine is opened with
Dim == 2
\* most records the store is let grow to
MaxRecords == 3
\* largest top_k given to query
MaxTopK == 2
\* the max_capacity of the tenant manager
MaxCapacity == 2
\* most tenants the manager is let create
MaxTenants == 4

(***************************************************************************)
(* Float                                                                   *)
(***************************************************************************)
\* type Float = f32: the resolution of the fixed-point stand-in (1.0 = Scale)
Scale == 1000
\* Float::EPSILON (1.19e-7) at that resolution
EPSILON == 0
\* Float::MIN, the default threshold of query
FloatMin == -1000000000

\* the one Float that is not a number
NaN == 2000000000

IsNaN(x) == x = NaN

Abs(x) == IF x < 0 THEN -x ELSE x

\* a quotient rounded toward zero
TDiv(a, b) == IF (a < 0) = (b < 0) THEN Abs(a) \div Abs(b) ELSE -(Abs(a) \div Abs(b))

\* a * b on Floats
FMul(a, b) == IF IsNaN(a) \/ IsNaN(b) THEN NaN ELSE TDiv(a * b, Scale)

\* a + b on Floats
FAdd(a, b) == IF IsNaN(a) \/ IsNaN(b) THEN NaN ELSE a + b

\* a / b on Floats (b a number other than 0)
FDiv(a, b) == IF IsNaN(a) THEN NaN ELSE TDiv(a * Scale, b)

\* a > b and a >= b on Floats: false when either is NaN
FGt(a, b) == ~IsNaN(a) /\ ~IsNaN(b) /\ a > b

FGe(a, b) == ~IsNaN(a) /\ ~IsNaN(b) /\ a >= b

RECURSIVE ISqrtBetween(_, _, _)
ISqrtBetween(n, lo, hi) ==
    IF lo >= hi THEN lo
    ELSE LET mid == (lo + hi + 1) \div 2
         IN IF mid * mid <= n THEN ISqrtBetween(n, mid, hi)
                              ELSE ISqrtBetween(n, lo, mid - 1)

\* x.sqrt() on a Float x >= 0: the root of x * Scale, which is below 2^31
FSqrt(x) == ISqrtBetween(x * Scale, 0, IF x * Scale < 46340 THEN x * Scale ELSE 46340)

RECURSIVE SumSq(_, _)
\* vector.iter().fold(0.0, |acc, &x| x.mul_add(x, acc)), from element i on
SumSq(vector, i) ==
    IF i > Len(vector) THEN 0
    ELSE FAdd(FMul(vector[i], vector[i]), SumSq(vector, i + 1))

\* normalize: the unit vector, or a panic when norm_sq > EPSILON fails
normalize(vector) ==
    LET norm_sq == SumSq(vector, 1)
    IN IF ~FGt(norm_sq, EPSILON)
       THEN [ok |-> FALSE, vec |-> << >>]
       ELSE LET inv_norm == FDiv(Scale, FSqrt(norm_sq))
            IN [ok |-> TRUE,
                vec |-> [i \in 1..Len(vector) |-> FMul(vector[i], inv_norm)]]

RECURSIVE DotFrom(_, _, _)
DotFrom(vec, q, i) ==
    IF i > Len(vec) THEN 0
    ELSE FAdd(FMul(vec[i], q[i]), DotFrom(vec, q, i + 1))

\* dot_product: the sum of the products, or a panic on mismatched lengths
dot_product(vec, q) ==
    IF Len(vec) # Len(q)
    THEN [ok |-> FALSE, score |-> 0]
    ELSE [ok |-> TRUE, score |-> DotFrom(vec, q, 1)]

(***************************************************************************)
(* Sequences                                                               *)
(***************************************************************************)
\* data.iter().position(|d| d.id == id), searched from element i on (1-based);
\* 0 stands for None
RECURSIVE PositionOfId(_, _, _)
PositionOfId(data, id, i) ==
    IF i > Len(data) THEN 0
    ELSE IF data[i].id = id THEN i
    ELSE PositionOfId(data, id, i + 1)

RECURSIVE Flatten(_)
Flatten(ss) == IF ss = << >> THEN << >> ELSE Head(ss) \o Flatten(Tail(ss))

IdsOf(data) == {data[i].id : i \in 1..Len(data)}

IdSeq(data) == [i \in 1..Len(data) |-> data[i].id]

(***************************************************************************)
(* State                                                                   *)
(***************************************************************************)
VARIABLES
    opened,         \* TRUE while a NanoVectorDB value exists
    embedding_dim,  \* NanoVectorDB.embedding_dim
    storage,        \* NanoVectorDB.storage: the DataBase
    disk,           \* the contents of storage_file
    ret,            \* the last call: its name, arguments and result
    latest,         \* per stored record, the vector last upserted for it
    tenants,        \* MultiTenantNanoVDB.tenants: tenant id -> its engine
    lru,            \* MultiTenantNanoVDB.lru
    max_capacity,   \* MultiTenantNanoVDB.max_capacity
    uuids,          \* how many ids Uuid::new_v4 has given out
    touched,        \* the live tenants, the least recently touched first
    files           \* tenant id -> the contents of its file under storage_dir

vars ==
    <<opened, embedding_dim, storage, disk, ret, latest,
      tenants, lru, max_capacity, uuids, touched, files>>

\* the state of the tenant manager
mtvars == <<tenants, lru, max_capacity, uuids, touched, files>>

\* DataBase { embedding_dim, data: vec![], matrix: vec![], additional_data: {} }
EmptyDataBase(dim) ==
    [embedding_dim |-> dim, data |-> << >>, matrix |-> << >>,
     additional_data |-> << >>]

\* Data { id, vector, fields }
Data(id, vector, fields) == [id |-> id, vector |-> vector, fields |-> fields]

(***************************************************************************)
(* upsert                                                                  *)
(***************************************************************************)
\* matrix[start..end].copy_from_slice(norm_vec), start and end 0-based
CopyFromSlice(matrix, start, end, norm_vec) ==
    [i \in 1..Len(matrix) |->
        IF i > start /\ i <= end THEN norm_vec[i - start] ELSE matrix[i]]

RECURSIVE UpdateLoop(_, _, _, _, _, _)
\* the first loop of upsert: records whose id is in existing_ids overwrite
\* their slice of the matrix
UpdateLoop(dim, st, datas, i, existing_ids, updates) ==
    IF i > Len(datas) THEN [ok |-> TRUE, st |-> st, updates |-> updates]
    ELSE IF datas[i].id \notin existing_ids
    THEN UpdateLoop(dim, st, datas, i + 1, existing_ids, updates)
    ELSE LET pos == PositionOfId(st.data, datas[i].id, 1) - 1
             n == normalize(datas[i].vector)
             start == pos * dim
             end == start + dim
         IN IF pos < 0
            THEN UpdateLoop(dim, st, datas, i + 1, existing_ids, updates)
            ELSE IF ~n.ok \/ end > Len(st.matrix) \/ Len(n.vec) # dim
            THEN [ok |-> FALSE, st |-> st, updates |-> updates]
            ELSE UpdateLoop(dim,
                    [st EXCEPT !.matrix = CopyFromSlice(@, start, end, n.vec)],
                    datas, i + 1, existing_ids, Append(updates, datas[i].id))

RECURSIVE InsertLoop(_, _, _, _)
\* the second loop of upsert: new_datas are appended
InsertLoop(st, new_datas, i, inserts) ==
    IF i > Len(new_datas) THEN [ok |-> TRUE, st |-> st, inserts |-> inserts]
    ELSE LET n == normalize(new_datas[i].vector)
         IN IF ~n.ok
            THEN [ok |-> FALSE, st |-> st, inserts |-> inserts]
            ELSE InsertLoop(
                    [st EXCEPT !.matrix = @ \o n.vec,
                               !.data = Append(@, Data(new_datas[i].id, n.vec,
                                                       new_datas[i].fields))],
                    new_datas, i + 1, Append(inserts, new_datas[i].id))

RECURSIVE UpsertEach(_, _, _, _, _, _)
\* the records i.. of datas upserted one after the other, each against the
\* ids stored when its turn comes
UpsertEach(dim, st, datas, i, updates, inserts) ==
    IF i > Len(datas)
    THEN [ok |-> TRUE, st |-> st, updates |-> updates, inserts |-> inserts]
    ELSE IF datas[i].id \in IdsOf(st.data)
    THEN LET u == UpdateLoop(dim, st, <<datas[i]>>, 1, IdsOf(st.data), << >>)
         IN IF ~u.ok
            THEN [ok |-> FALSE, st |-> u.st, updates |-> updates,
                  inserts |-> inserts]
            ELSE UpsertEach(dim, u.st, datas, i + 1, updates \o u.updates, inserts)
    ELSE LET n == InsertLoop(st, <<datas[i]>>, 1, << >>)
         IN IF ~n.ok
            THEN [ok |-> FALSE, st |-> n.st, updates |-> updates,
                  inserts |-> inserts]
            ELSE UpsertEach(dim, n.st, datas, i + 1, updates, inserts \o n.inserts)

\* upsert with each record classified against the ids stored at its turn
upsert_running_ids(dim, st, datas) == UpsertEach(dim, st, datas, 1, << >>, << >>)

\* upsert with the ids already stored not looked up: every record is new
upsert_all_new(dim, st, datas) ==
    LET n == InsertLoop(st, datas, 1, << >>)
    IN [ok |-> n.ok, st |-> n.st, updates |-> << >>, inserts |-> n.inserts]

\* upsert that undoes its mutations when a record fails
upsert_all_or_nothing(dim, st, datas) ==
    LET existing_ids == IdsOf(st.data)
        u == UpdateLoop(dim, st, datas, 1, existing_ids, << >>)
        IsNew(d) == d.id \notin existing_ids
        n == InsertLoop(u.st, SelectSeq(datas, IsNew), 1, << >>)
    IN IF ~u.ok
       THEN [ok |-> FALSE, st |-> st, updates |-> << >>, inserts |-> << >>]
       ELSE IF ~n.ok
       THEN [ok |-> FALSE, st |-> st, updates |-> << >>, inserts |-> << >>]
       ELSE [ok |-> TRUE, st |-> n.st, updates |-> u.updates, inserts |-> n.inserts]

\* upsert with the new records deduplicated: of the new records that share
\* an id only the first is inserted
upsert_first_of_each_id(dim, st, datas) ==
    LET existing_ids == IdsOf(st.data)
        u == UpdateLoop(dim, st, datas, 1, existing_ids, << >>)
        firsts == {i \in 1..Len(datas) :
                      /\ datas[i].id \notin existing_ids
                      /\ \A j \in 1..(i - 1) : datas[j].id # datas[i].id}
        RECURSIVE Pick(_)
        Pick(i) == IF i > Len(datas) THEN << >>
                   ELSE IF i \in firsts THEN <<datas[i]>> \o Pick(i + 1)
                   ELSE Pick(i + 1)
        n == InsertLoop(u.st, Pick(1), 1, << >>)
    IN IF ~u.ok
       THEN [ok |-> FALSE, st |-> u.st, updates |-> u.updates, inserts |-> << >>]
       ELSE [ok |-> n.ok, st |-> n.st, updates |-> u.updates, inserts |-> n.inserts]

\* upsert(datas) on an engine of dimension dim holding st
upsert(dim, st, datas) ==
    LET existing_ids == IdsOf(st.data)
        u == UpdateLoop(dim, st, datas, 1, existing_ids, << >>)
        IsNew(d) == d.id \notin existing_ids
        new_datas == SelectSeq(datas, IsNew)
        n == InsertLoop(u.st, new_datas, 1, << >>)
    IN IF ~u.ok
       THEN [ok |-> FALSE, st |-> u.st, updates |-> u.updates, inserts |-> << >>]
       ELSE [ok |-> n.ok, st |-> n.st, updates |-> u.updates, inserts |-> n.inserts]

(***************************************************************************)
(* get, delete                                                             *)
(***************************************************************************)
\* get with the records looked up id by id, in the order of the request
get_in_request_order(st, ids) ==
    LET Of(i) == LET Wanted(d) == d.id = ids[i] IN SelectSeq(st.data, Wanted)
    IN Flatten([i \in 1..Len(ids) |-> Of(i)])

\* get(ids): the stored records whose id is in the set, in store order
get(st, ids) ==
    LET id_set == {ids[i] : i \in 1..Len(ids)}
        Wanted(d) == d.id \in id_set
    IN SelectSeq(st.data, Wanted)

\* delete with the matrix left as it was
delete_keeps_matrix(st, ids) ==
    LET id_set == {ids[i] : i \in 1..Len(ids)}
        Kept(d) == d.id \notin id_set
    IN [st EXCEPT !.data = SelectSeq(st.data, Kept)]

\* delete with only the first of the ids looked at
delete_first_id(st, ids) ==
    LET Kept(d) == ids = << >> \/ d.id # ids[1]
        data == SelectSeq(st.data, Kept)
    IN [st EXCEPT !.data = data,
                  !.matrix = Flatten([i \in 1..Len(data) |-> data[i].vector])]

\* delete(ids): retain the others, rebuild the matrix from their vectors
delete(st, ids) ==
    LET id_set == {ids[i] : i \in 1..Len(ids)}
        Kept(d) == d.id \notin id_set
        data == SelectSeq(st.data, Kept)
    IN [st EXCEPT !.data = data,
                  !.matrix = Flatten([i \in 1..Len(data) |-> data[i].vector])]

\* len(), is_empty(), vector_bytes_len()
len(st) == Len(st.data)

is_empty(st) == st.data = << >>

vector_bytes_len(st) == Len(st.matrix)

(***************************************************************************)
(* ScoredIndex and the BinaryHeap of query                                 *)
(***************************************************************************)
ScoredIndex(score, index) == [score |-> score, index |-> index]

Less == -1

Equal == 0

Greater == 1

\* Ord for ScoredIndex: other.score.partial_cmp(&self.score), and the
\* unwrap_or_else arm when one of the scores is NaN
cmp(self, other) ==
    IF ~IsNaN(self.score) /\ ~IsNaN(other.score)
    THEN IF other.score < self.score THEN Less
         ELSE IF other.score = self.score THEN Equal
         ELSE Greater
    ELSE IF IsNaN(self.score) /\ IsNaN(other.score) THEN Equal
    ELSE IF IsNaN(self.score) THEN Less
    ELSE Greater

\* a <= b by Ord
Le(a, b) == cmp(a, b) # Greater

\* element i of a heap's vector, 0-based
At(h, i) == h[i + 1]

SetAt(h, i, x) == [h EXCEPT ![i + 1] = x]

RECURSIVE SiftUp(_, _, _, _)
\* BinaryHeap::sift_up(start, pos), elt being the element taken out at pos
SiftUp(h, start, pos, elt) ==
    IF pos > start /\ ~Le(elt, At(h, (pos - 1) \div 2))
    THEN SiftUp(SetAt(h, pos, At(h, (pos - 1) \div 2)), start, (pos - 1) \div 2, elt)
    ELSE SetAt(h, pos, elt)

\* BinaryHeap::push
HeapPush(h, x) == SiftUp(Append(h, x), 0, Len(h), x)

\* the greater child of the hole at pos, the right one on a tie
GreaterChild(h, child) ==
    IF Le(At(h, child), At(h, child + 1)) THEN child + 1 ELSE child

RECURSIVE SiftDownToBottom(_, _, _, _, _)
\* BinaryHeap::sift_down_to_bottom(start): the hole goes down to a leaf, then
\* the element is sifted up from there
SiftDownToBottom(h, start, pos, end, elt) ==
    LET child == 2 * pos + 1
    IN IF end >= 2 /\ child <= end - 2
       THEN LET c == GreaterChild(h, child)
            IN SiftDownToBottom(SetAt(h, pos, At(h, c)), start, c, end, elt)
       ELSE IF child = end - 1
       THEN SiftUp(SetAt(h, pos, At(h, child)), start, child, elt)
       ELSE SiftUp(h, start, pos, elt)

\* BinaryHeap::pop: the vector after the greatest element is removed
HeapPop(h) ==
    IF Len(h) <= 1 THEN << >>
    ELSE LET item == h[Len(h)]
             rest == SubSeq(h, 1, Len(h) - 1)
         IN SiftDownToBottom(rest, 0, 0, Len(rest), item)

RECURSIVE SiftDownRange(_, _, _, _)
\* BinaryHeap::sift_down_range(pos, end)
SiftDownRange(h, pos, end, elt) ==
    LET child == 2 * pos + 1
    IN IF end >= 2 /\ child <= end - 2
       THEN LET c == GreaterChild(h, child)
            IN IF Le(At(h, c), elt)
               THEN SetAt(h, pos, elt)
               ELSE SiftDownRange(SetAt(h, pos, At(h, c)), c, end, elt)
       ELSE IF child = end - 1 /\ ~Le(At(h, child), elt)
       THEN SetAt(SetAt(h, pos, At(h, child)), child, elt)
       ELSE SetAt(h, pos, elt)

RECURSIVE SortedFrom(_, _)
\* BinaryHeap::into_sorted_vec: while end > 1, swap the root with the last
\* element of the range and sift the new root down
SortedFrom(h, end) ==
    IF end <= 1 THEN h
    ELSE LET e == end - 1
             swapped == SetAt(SetAt(h, 0, At(h, e)), e, At(h, 0))
         IN SortedFrom(SiftDownRange(swapped, 0, e, At(swapped, 0)), e)

into_sorted_vec(h) == SortedFrom(h, Len(h))

\* the push with no pop after it
PushOnly(h, si, top_k) == HeapPush(h, si)

\* heap.push(si); if heap.len() > top_k { heap.pop(); }
BoundedPush(h, si, top_k) ==
    LET pushed == HeapPush(h, si)
    IN IF Len(pushed) > top_k THEN HeapPop(pushed) ELSE pushed

RECURSIVE MergeFrom(_, _, _, _)
\* the reduce closure: every element of heap2, in the order of its vector,
\* is pushed on heap1
MergeFrom(heap1, heap2, i, top_k) ==
    IF i > Len(heap2) THEN heap1
    ELSE MergeFrom(BoundedPush(heap1, heap2[i], top_k), heap2, i + 1, top_k)

\* a reduce that drops heap2 when heap1 is full
MergeIfRoom(heap1, heap2, top_k) ==
    IF Len(heap1) >= top_k THEN heap1 ELSE MergeFrom(heap1, heap2, 1, top_k)

MergeHeaps(heap1, heap2, top_k) == MergeFrom(heap1, heap2, 1, top_k)

(***************************************************************************)
(* query                                                                   *)
(***************************************************************************)
\* Option<T>: << >> is None, <<x>> is Some(x)
None == << >>

Some(x) == <<x>>

F_ID == "__id__"

F_METRICS == "__metrics__"

\* a DataFilter is a predicate on Data; here one that accepts a record by
\* its id and its fields
Accepts(f, d) == d.id \in f.ids /\ d.fields \in f.fields

Min(a, b) == IF a < b THEN a ELSE b

\* matrix.par_chunks(embedding_dim): the number of chunks, and chunk idx
\* (0-based), the last one shorter when the length is no multiple
NumChunks(matrix, dim) == (Len(matrix) + dim - 1) \div dim

Chunk(matrix, dim, idx) ==
    SubSeq(matrix, idx * dim + 1, Min((idx + 1) * dim, Len(matrix)))

\* the ways a range of n chunks is split among workers: << >> is a range
\* folded by one worker, <<m, l, r>> a range split after its first m chunks
\* whose two results are reduced, left with right
RECURSIVE Schedules(_)
Schedules(n) ==
    IF n <= 1 THEN {<< >>}
    ELSE {<< >>} \cup
         UNION {{<<m, l, r>> : l \in Schedules(m), r \in Schedules(n - m)} :
                m \in 1..(n - 1)}

\* a filter that lets every record through, whatever was supplied
FilterPassesAll(filter, d) == TRUE

\* the closure given to filter(): filter.as_ref().map(|f| f(d)).unwrap_or(true)
FilterPasses(filter, d) == IF filter = None THEN TRUE ELSE Accepts(filter[1], d)

\* a threshold that no score fails
ReachesAlways(score, threshold) == TRUE

\* score >= threshold
Reaches(score, threshold) == FGe(score, threshold)

RECURSIVE FoldRange(_, _, _, _, _, _, _, _)
\* filter and fold over the chunks idx .. last of one worker's range
FoldRange(dim, st, query_norm, top_k, threshold, filter, idx, last) ==
    IF idx > last THEN [ok |-> TRUE, heap |-> << >>]
    ELSE LET rest == FoldRange(dim, st, query_norm, top_k, threshold, filter,
                               idx, last - 1)
         IN IF ~rest.ok THEN rest
            ELSE IF filter # None /\ last + 1 > Len(st.data)
            THEN [ok |-> FALSE, heap |-> << >>]
            ELSE IF ~FilterPasses(filter, st.data[last + 1])
            THEN rest
            ELSE LET d == dot_product(Chunk(st.matrix, dim, last), query_norm)
                 IN IF ~d.ok THEN [ok |-> FALSE, heap |-> << >>]
                    ELSE IF Reaches(d.score, threshold)
                    THEN [ok |-> TRUE,
                          heap |-> BoundedPush(rest.heap,
                                     ScoredIndex(d.score, last), top_k)]
                    ELSE rest

RECURSIVE Reduce(_, _, _, _, _, _, _, _, _)
\* fold(..).reduce(..) over the n chunks from lo on, split as sched says; a
\* worker's folded heap is first reduced with the identity
Reduce(dim, st, query_norm, top_k, threshold, filter, sched, lo, n) ==
    IF sched = << >>
    THEN LET f == FoldRange(dim, st, query_norm, top_k, threshold, filter,
                            lo, lo + n - 1)
         IN [ok |-> f.ok, heap |-> MergeHeaps(<< >>, f.heap, top_k)]
    ELSE LET l == Reduce(dim, st, query_norm, top_k, threshold, filter,
                         sched[2], lo, sched[1])
             r == Reduce(dim, st, query_norm, top_k, threshold, filter,
                         sched[3], lo + sched[1], n - sched[1])
         IN IF ~l.ok \/ ~r.ok THEN [ok |-> FALSE, heap |-> << >>]
            ELSE [ok |-> TRUE, heap |-> MergeHeaps(l.heap, r.heap, top_k)]

\* one result of query: the record's fields, and the two reserved keys
ResultOf(data, si) ==
    [k \in DOMAIN data[si.index + 1].fields \cup {F_METRICS, F_ID} |->
        IF k = F_ID THEN data[si.index + 1].id
        ELSE IF k = F_METRICS THEN si.score
        ELSE data[si.index + 1].fields[k]]

\* query(query, top_k, better_than, filter) under the schedule sched
query(dim, st, q, top_k, better_than, filter, sched) ==
    LET query_norm == normalize(q)
        threshold == IF better_than = None THEN FloatMin ELSE better_than[1]
    IN IF ~query_norm.ok \/ dim = 0
       THEN [ok |-> FALSE, out |-> << >>]
       ELSE LET heap == Reduce(dim, st, query_norm.vec, top_k, threshold,
                               filter, sched, 0, NumChunks(st.matrix, dim))
                sorted == into_sorted_vec(heap.heap)
            IN IF ~heap.ok
               THEN [ok |-> FALSE, out |-> << >>]
               ELSE IF \E i \in 1..Len(sorted) : sorted[i].index >= Len(st.data)
               THEN [ok |-> FALSE, out |-> << >>]
               ELSE [ok |-> TRUE,
                     out |-> [i \in 1..Len(sorted) |-> ResultOf(st.data, sorted[i])]]

(***************************************************************************)
(* The persistence codec: serde_json and base64_bytes                      *)
(***************************************************************************)
\* x.to_le_bytes(): the 32 bits of a Float, the low half first
ToLeBytes(x) ==
    LET low == x % 65536
        high == (x \div 65536) % 65536
    IN <<low % 256, low \div 256, high % 256, high \div 256>>

\* Float::from_le_bytes
FromLeBytes(b) ==
    LET low == b[1] + 256 * b[2]
        high == b[3] + 256 * b[4]
    IN (IF high >= 32768 THEN high - 65536 ELSE high) * 65536 + low

\* bytemuck::cast_slice(vec): the bytes of every element, in order
CastSlice(vec) == Flatten([i \in 1..Len(vec) |-> ToLeBytes(vec[i])])

\* the character '=' of a base64 text, whose other characters are 0..63
Pad == 64

RECURSIVE Base64Encode(_)
\* general_purpose::STANDARD.encode: 3 bytes give 4 characters, a rest of 1
\* or 2 bytes is padded
Base64Encode(bytes) ==
    IF Len(bytes) = 0 THEN << >>
    ELSE IF Len(bytes) = 1
    THEN <<bytes[1] \div 4, (bytes[1] % 4) * 16, Pad, Pad>>
    ELSE IF Len(bytes) = 2
    THEN <<bytes[1] \div 4, (bytes[1] % 4) * 16 + bytes[2] \div 16,
           (bytes[2] % 16) * 4, Pad>>
    ELSE <<bytes[1] \div 4, (bytes[1] % 4) * 16 + bytes[2] \div 16,
           (bytes[2] % 16) * 4 + bytes[3] \div 64, bytes[3] % 64>>
         \o Base64Encode(SubSeq(bytes, 4, Len(bytes)))

RECURSIVE Base64Decode(_)
\* general_purpose::STANDARD.decode: the bytes, or an error on a text that
\* is not canonical padded base64
Base64Decode(text) ==
    IF Len(text) = 0 THEN [ok |-> TRUE, bytes |-> << >>]
    ELSE IF Len(text) < 4 \/ text[1] = Pad \/ text[2] = Pad
    THEN [ok |-> FALSE, bytes |-> << >>]
    ELSE IF text[3] = Pad
    THEN IF Len(text) = 4 /\ text[4] = Pad /\ text[2] % 16 = 0
         THEN [ok |-> TRUE, bytes |-> <<text[1] * 4 + text[2] \div 16>>]
         ELSE [ok |-> FALSE, bytes |-> << >>]
    ELSE IF text[4] = Pad
    THEN IF Len(text) = 4 /\ text[3] % 4 = 0
         THEN [ok |-> TRUE,
               bytes |-> <<text[1] * 4 + text[2] \div 16,
                           (text[2] % 16) * 16 + text[3] \div 4>>]
         ELSE [ok |-> FALSE, bytes |-> << >>]
    ELSE LET rest == Base64Decode(SubSeq(text, 5, Len(text)))
         IN [ok |-> rest.ok,
             bytes |-> <<text[1] * 4 + text[2] \div 16,
                         (text[2] % 16) * 16 + text[3] \div 4,
                         (text[3] % 4) * 64 + text[4]>> \o rest.bytes]

\* bytes.chunks_exact(4).map(from_le_bytes): a rest of fewer than 4 bytes is
\* dropped
FloatsOf(bytes) ==
    [i \in 1..(Len(bytes) \div 4) |-> FromLeBytes(SubSeq(bytes, 4 * i - 3, 4 * i))]

\* base64_bytes::serialize and base64_bytes::deserialize
serialize(vec) == Base64Encode(CastSlice(vec))

deserialize(text) ==
    LET d == Base64Decode(text)
    IN [ok |-> d.ok, vec |-> IF d.ok THEN FloatsOf(d.bytes) ELSE << >>]

RECURSIVE PairsOf(_)
\* the entries of a map as the members of a JSON object
PairsOf(map) ==
    IF DOMAIN map = {} THEN << >>
    ELSE LET k == CHOOSE x \in DOMAIN map : TRUE
         IN <<<<k, map[k]>>>> \o PairsOf([x \in DOMAIN map \ {k} |-> map[x]])

\* the map a JSON object's members give, a later member replacing an earlier
\* one of the same key
MapOf(pairs) ==
    [k \in {pairs[i][1] : i \in 1..Len(pairs)} |->
        LET last == CHOOSE i \in 1..Len(pairs) :
                        /\ pairs[i][1] = k
                        /\ \A j \in (i + 1)..Len(pairs) : pairs[j][1] # k
        IN pairs[last][2]]

\* Serialize for Data: "__id__", then the fields flattened; the vector is
\* skipped
SerializeData(d) == <<<<F_ID, d.id>>>> \o PairsOf(d.fields)

\* Deserialize for Data: one "__id__" member is the id, the other members are
\* the fields, the vector is Vec::default(); no "__id__" member, or two, is
\* an error
DeserializeData(obj) ==
    LET IsId(pr) == pr[1] = F_ID
        IsField(pr) == pr[1] # F_ID
        ids == SelectSeq(obj, IsId)
    IN IF Len(ids) # 1
       THEN [ok |-> FALSE, data |-> Data("", << >>, << >>)]
       ELSE [ok |-> TRUE,
             data |-> Data(ids[1][2], << >>, MapOf(SelectSeq(obj, IsField)))]

\* serde_json::to_string(&self.storage): additional_data is left out when
\* it is empty
SerializeDataBase(st) ==
    [embedding_dim |-> st.embedding_dim,
     data |-> [i \in 1..Len(st.data) |-> SerializeData(st.data[i])],
     matrix |-> serialize(st.matrix),
     additional_data |-> IF DOMAIN st.additional_data = {} THEN None
                         ELSE Some(PairsOf(st.additional_data))]

\* serde_json::from_str::<DataBase>: additional_data defaults to the empty
\* map
DeserializeDataBase(doc) ==
    LET ds == [i \in 1..Len(doc.data) |-> DeserializeData(doc.data[i])]
        m == deserialize(doc.matrix)
    IN IF ~m.ok \/ \E i \in 1..Len(ds) : ~ds[i].ok
       THEN [ok |-> FALSE, db |-> EmptyDataBase(0)]
       ELSE [ok |-> TRUE,
             db |-> [embedding_dim |-> doc.embedding_dim,
                     data |-> [i \in 1..Len(ds) |-> ds[i].data],
                     matrix |-> m.vec,
                     additional_data |-> IF doc.additional_data = None THEN << >>
                                         ELSE MapOf(doc.additional_data[1])]]

\* the storage file: missing, of length 0, or holding a JSON document
NoDoc == SerializeDataBase(EmptyDataBase(0))

MissingFile == [state |-> "missing", doc |-> NoDoc]

EmptyFile == [state |-> "empty", doc |-> NoDoc]

JsonFile(doc) == [state |-> "json", doc |-> doc]

\* new without the check that the file is longer than 0: a file of length
\* 0 is read and parsed, and is no JSON document
new_parsing_empty_file(dim, file) ==
    IF file.state = "empty"
    THEN [ok |-> FALSE, error |-> "parse", expected |-> 0, actual |-> 0,
          storage |-> EmptyDataBase(dim)]
    ELSE IF file.state = "json"
    THEN LET r == DeserializeDataBase(file.doc)
             expected_len == Len(r.db.data) * r.db.embedding_dim
         IN IF ~r.ok
            THEN [ok |-> FALSE, error |-> "parse", expected |-> 0, actual |-> 0,
                  storage |-> EmptyDataBase(dim)]
            ELSE IF Len(r.db.matrix) # expected_len
            THEN [ok |-> FALSE, error |-> "Matrix size mismatch",
                  expected |-> expected_len, actual |-> Len(r.db.matrix),
                  storage |-> EmptyDataBase(dim)]
            ELSE [ok |-> TRUE, error |-> "", expected |-> 0, actual |-> 0,
                  storage |-> r.db]
    ELSE [ok |-> TRUE, error |-> "", expected |-> 0, actual |-> 0,
          storage |-> EmptyDataBase(dim)]

\* NanoVectorDB::new(embedding_dim, storage_file): the engine, or an error
new(dim, file) ==
    IF file.state = "json"
    THEN LET r == DeserializeDataBase(file.doc)
             expected_len == Len(r.db.data) * r.db.embedding_dim
         IN IF ~r.ok
            THEN [ok |-> FALSE, error |-> "parse", expected |-> 0, actual |-> 0,
                  storage |-> EmptyDataBase(dim)]
            ELSE IF Len(r.db.matrix) # expected_len
            THEN [ok |-> FALSE, error |-> "Matrix size mismatch",
                  expected |-> expected_len, actual |-> Len(r.db.matrix),
                  storage |-> EmptyDataBase(dim)]
            ELSE [ok |-> TRUE, error |-> "", expected |-> 0, actual |-> 0,
                  storage |-> r.db]
    ELSE [ok |-> TRUE, error |-> "", expected |-> 0, actual |-> 0,
          storage |-> EmptyDataBase(dim)]

\* save: the file afterwards
save(st) == JsonFile(SerializeDataBase(st))

\* get_additional_data()
get_additional_data(st) == st.additional_data

\* store_additional_data with the entries given added to those stored
store_additional_data_merged(st, data) ==
    [st EXCEPT !.additional_data =
        [k \in DOMAIN @ \cup DOMAIN data |->
            IF k \in DOMAIN data THEN data[k] ELSE @[k]]]

\* store_additional_data(data): self.storage.additional_data = data
store_additional_data(st, data) == [st EXCEPT !.additional_data = data]

(***************************************************************************)
(* MultiTenantNanoVDB (main.rs): a tenant id is the number of the call of  *)
(* Uuid::new_v4 that gave it; the ids it gives are taken to be distinct    *)
(***************************************************************************)
\* MultiTenantNanoVDB::new: tenants: HashMap::new(), lru: VecDeque::new(),
\* in a storage_dir that holds no tenant file
MultiTenantNew ==
    [tenants |-> [id \in {} |-> EmptyDataBase(Dim)], lru |-> << >>,
     files |-> [id \in {} |-> NoDoc]]

\* map.insert(key, value)
Insert(map, key, value) ==
    [k \in DOMAIN map \cup {key} |-> IF k = key THEN value ELSE map[k]]

\* map.remove(key)
Remove(map, key) == [k \in DOMAIN map \ {key} |-> map[k]]

\* deque.remove(index) at the first position of id, when there is one
RemoveFirst(deque, id) ==
    IF \E i \in 1..Len(deque) : deque[i] = id
    THEN LET index == CHOOSE i \in 1..Len(deque) :
                         /\ deque[i] = id
                         /\ \A j \in 1..(i - 1) : deque[j] # id
         IN SubSeq(deque, 1, index - 1) \o SubSeq(deque, index + 1, Len(deque))
    ELSE deque

\* main.rs normalize: x / norm, norm the root of the sum of the squares;
\* 0.0 / 0.0 is NaN
main_normalize(vector) ==
    LET norm == FSqrt(SumSq(vector, 1))
    IN [i \in 1..Len(vector) |->
           IF norm = 0 THEN NaN ELSE FDiv(vector[i], norm)]

\* main.rs decode_matrix on the text of matrix_base64: the floats of the
\* rows in chunks of dim, or an error when dim does not divide their number
decode_matrix(matrix, dim) ==
    LET floats == FloatsOf(CastSlice(Flatten(matrix)))
    IN IF dim = 0 \/ Len(floats) % dim # 0
       THEN [ok |-> FALSE, matrix |-> << >>]
       ELSE [ok |-> TRUE,
             matrix |-> [i \in 1..(Len(floats) \div dim) |->
                            Chunk(floats, dim, i - 1)]]

\* main.rs NanoVectorDB::new(embedding_dim, storage_file): the DataBase of
\* the engine, its matrix a list of rows
main_new(dim, file) ==
    IF file.state # "missing"
    THEN LET ds == [i \in 1..Len(file.doc.data) |->
                       DeserializeData(file.doc.data[i])]
             m == decode_matrix(file.doc.matrix, dim)
         IN IF file.state # "json" \/ ~m.ok \/ \E i \in 1..Len(ds) : ~ds[i].ok
            THEN [ok |-> FALSE, storage |-> EmptyDataBase(dim)]
            ELSE [ok |-> TRUE,
                  storage |-> [embedding_dim |-> file.doc.embedding_dim,
                               data |-> [i \in 1..Len(ds) |-> ds[i].data],
                               matrix |-> m.matrix,
                               additional_data |-> MapOf(file.doc.additional_data)]]
    ELSE [ok |-> TRUE, storage |-> EmptyDataBase(dim)]

\* main.rs NanoVectorDB::upsert(datas) on the DataBase st: a stored id has
\* its row assigned, the others are pushed, and every row is then computed
\* again from the vectors of the records
main_upsert(st, datas) ==
    LET existing_ids == IdsOf(st.data)
        WasThere(d) == d.id \in existing_ids
        IsNew(d) == d.id \notin existing_ids
        data == st.data \o SelectSeq(datas, IsNew)
    IN [st |-> [st EXCEPT !.data = data,
                          !.matrix = [i \in 1..Len(data) |->
                                         main_normalize(data[i].vector)]],
        updates |-> IdSeq(SelectSeq(datas, WasThere)),
        inserts |-> IdSeq(SelectSeq(datas, IsNew))]

\* main.rs NanoVectorDB::save: the file afterwards, the matrix written as
\* its rows and additional_data always
main_save(st) ==
    JsonFile([embedding_dim |-> st.embedding_dim,
              data |-> [i \in 1..Len(st.data) |-> SerializeData(st.data[i])],
              matrix |-> st.matrix,
              additional_data |-> PairsOf(st.additional_data)])

\* create_tenant with the engines that stay in memory made new
create_tenant_resetting(mt, capacity, tenant_id) ==
    LET pushed == Append(mt.lru, tenant_id)
        inserted == Insert(mt.tenants, tenant_id, EmptyDataBase(Dim))
    IN IF Cardinality(DOMAIN inserted) > capacity
       THEN [tenants |-> [id \in DOMAIN inserted \ {Head(pushed)} |->
                             EmptyDataBase(Dim)],
             lru |-> Tail(pushed), out |-> tenant_id]
       ELSE [tenants |-> inserted, lru |-> pushed, out |-> tenant_id]

\* create_tenant that evicts from the back of the queue
create_tenant_evicting_newest(mt, capacity, tenant_id) ==
    LET db == main_new(Dim, MissingFile).storage
        pushed == Append(mt.lru, tenant_id)
        inserted == Insert(mt.tenants, tenant_id, db)
    IN IF Cardinality(DOMAIN inserted) > capacity
       THEN [tenants |-> Remove(inserted, pushed[Len(pushed)]),
             lru |-> SubSeq(pushed, 1, Len(pushed) - 1), out |-> tenant_id]
       ELSE [tenants |-> inserted, lru |-> pushed, out |-> tenant_id]

\* create_tenant on the manager mt = [tenants, lru] of max_capacity
\* capacity, tenant_id the id that Uuid::new_v4 gave
create_tenant(mt, capacity, tenant_id) ==
    LET db == main_new(Dim, MissingFile).storage
        pushed == Append(mt.lru, tenant_id)
        inserted == Insert(mt.tenants, tenant_id, db)
    IN IF Cardinality(DOMAIN inserted) > capacity /\ pushed # << >>
       THEN [tenants |-> Remove(inserted, Head(pushed)), lru |-> Tail(pushed),
             out |-> tenant_id]
       ELSE [tenants |-> inserted, lru |-> pushed, out |-> tenant_id]

\* get_tenant with the queue left as it is
get_tenant_untouched(mt, tenant_id) ==
    [tenants |-> mt.tenants, lru |-> mt.lru,
     out |-> IF tenant_id \in DOMAIN mt.tenants
             THEN Some(mt.tenants[tenant_id]) ELSE None]

\* get_tenant(tenant_id) on the manager mt = [tenants, lru]
get_tenant(mt, tenant_id) ==
    [tenants |-> mt.tenants,
     lru |-> Append(RemoveFirst(mt.lru, tenant_id), tenant_id),
     out |-> IF tenant_id \in DOMAIN mt.tenants
             THEN Some(mt.tenants[tenant_id]) ELSE None]

(***************************************************************************)
(* Inputs                                                                  *)
(***************************************************************************)
\* vectors of length Dim: the unit vector of axis i, their sum, its opposite
E(i) == [j \in 1..Dim |-> IF j = i THEN Scale ELSE 0]

Ones == [j \in 1..Dim |-> Scale]

Neg(v) == [j \in 1..Len(v) |-> -v[j]]

\* fields
NoFields == << >>

Red == [color |-> "red"]

Blue == [color |-> "blue"]

\* every batch of one or two of the records rs
BatchesOf(rs) == {<<r>> : r \in rs} \cup {<<r1, r2>> : r1 \in rs, r2 \in rs}

\* every list of one or two of the ids
IdListsOf(ids) == {<<i>> : i \in ids} \cup {<<i, j>> : i \in ids, j \in ids}

(***************************************************************************)
(* Actions: one per call                                                   *)
(***************************************************************************)
Call(op, ok, args, out) == [op |-> op, ok |-> ok, args |-> args, out |-> out]

RECURSIVE LatestAfter(_, _, _, _)
\* latest after the records applied[i..] of an upsert on the data it found:
\* a record whose id was stored replaces the vector of the first record of
\* that id, another one is added at the end
LatestAfter(data, lat, applied, i) ==
    IF i > Len(applied) THEN lat
    ELSE IF applied[i].id \in IdsOf(data)
    THEN LatestAfter(data,
            [lat EXCEPT ![PositionOfId(data, applied[i].id, 1)] = applied[i].vector],
            applied, i + 1)
    ELSE LatestAfter(data, Append(lat, applied[i].vector), applied, i + 1)

RECURSIVE KeptOf(_, _, _, _)
\* the elements i.. of lat whose record delete(ids) retains
KeptOf(data, lat, id_set, i) ==
    IF i > Len(data) THEN << >>
    ELSE IF data[i].id \in id_set THEN KeptOf(data, lat, id_set, i + 1)
    ELSE <<lat[i]>> \o KeptOf(data, lat, id_set, i + 1)

\* NanoVectorDB::new(dim, path) on the path of the engine, which replaces it
Open(dim) ==
    \E r \in {new(dim, disk)} :
       /\ opened' = r.ok
       /\ embedding_dim' = dim
       /\ storage' = r.storage
       /\ latest' = [i \in 1..Len(r.storage.data) |-> << >>]
       /\ ret' = Call("new", r.ok, dim,
                      IF r.ok THEN << >> ELSE <<r.error, r.expected, r.actual>>)
       /\ UNCHANGED <<disk, mtvars>>

\* the records of datas the call had applied when it returned or panicked:
\* as many updates and as many inserts as it had listed
Applied(st, datas, r) ==
    LET WasThere(d) == d.id \in IdsOf(st.data)
        IsNew(d) == d.id \notin IdsOf(st.data)
        Take(s, n) == SubSeq(s, 1, Min(n, Len(s)))
    IN Take(SelectSeq(datas, WasThere), Len(r.updates))
       \o Take(SelectSeq(datas, IsNew), Len(r.inserts))

\* db.upsert(datas); a panic leaves what the call had done by then
Upsert(datas) ==
    /\ opened
    /\ \E r \in {upsert(embedding_dim, storage, datas)} :
       \E applied \in {Applied(storage, datas, r)} :
          /\ Len(r.st.data) <= MaxRecords
          /\ storage' = r.st
          /\ latest' = LatestAfter(storage.data, latest, applied, 1)
          /\ ret' = Call("upsert", r.ok, datas,
                         IF r.ok THEN <<r.updates, r.inserts>> ELSE << >>)
    /\ UNCHANGED <<opened, embedding_dim, disk, mtvars>>

\* db.delete(ids)
Delete(ids) ==
    /\ opened
    /\ storage' = delete(storage, ids)
    /\ latest' = KeptOf(storage.data, latest, {ids[i] : i \in 1..Len(ids)}, 1)
    /\ ret' = Call("delete", TRUE, ids, << >>)
    /\ UNCHANGED <<opened, embedding_dim, disk, mtvars>>

\* db.get(ids)
Get(ids) ==
    /\ opened
    /\ ret' = Call("get", TRUE, ids, get(storage, ids))
    /\ UNCHANGED <<opened, embedding_dim, storage, disk, latest, mtvars>>

\* db.query(q, top_k, better_than, filter), its workers scheduled as sched
Query(q, top_k, better_than, filter, sched) ==
    /\ opened
    /\ \E r \in {query(embedding_dim, storage, q, top_k, better_than, filter, sched)} :
          ret' = Call("query", r.ok, <<q, top_k, better_than, filter, sched>>, r.out)
    /\ UNCHANGED <<opened, embedding_dim, storage, disk, latest, mtvars>>

\* db.save()
Save ==
    /\ opened
    /\ disk' = save(storage)
    /\ ret' = Call("save", TRUE, << >>, << >>)
    /\ UNCHANGED <<opened, embedding_dim, storage, latest, mtvars>>

\* db.store_additional_data(data)
StoreAdditionalData(data) ==
    /\ opened
    /\ storage' = store_additional_data(storage, data)
    /\ ret' = Call("store_additional_data", TRUE, data, << >>)
    /\ UNCHANGED <<opened, embedding_dim, disk, latest, mtvars>>

\* the live tenants of live in the order of seq
LiveOf(seq, live) ==
    LET IsLive(id) == id \in DOMAIN live IN SelectSeq(seq, IsLive)

\* manager.create_tenant(): Uuid::new_v4 gives the next id
CreateTenant ==
    /\ uuids < MaxTenants
    /\ \E r \in {create_tenant([tenants |-> tenants, lru |-> lru],
                               max_capacity, uuids + 1)} :
          /\ tenants' = r.tenants
          /\ lru' = r.lru
          /\ touched' = LiveOf(Append(touched, uuids + 1), r.tenants)
          /\ ret' = Call("create_tenant", TRUE, << >>,
                         <<[tenant_id |-> r.out]>>)
    /\ uuids' = uuids + 1
    /\ UNCHANGED <<opened, embedding_dim, storage, disk, latest, files,
                   max_capacity>>

\* manager.get_tenant(tenant_id)
GetTenant(tenant_id) ==
    /\ \E r \in {get_tenant([tenants |-> tenants, lru |-> lru], tenant_id)} :
          /\ tenants' = r.tenants
          /\ lru' = r.lru
          /\ touched' = IF tenant_id \in DOMAIN tenants
                        THEN Append(RemoveFirst(touched, tenant_id), tenant_id)
                        ELSE touched
          /\ ret' = Call("get_tenant", TRUE, <<tenant_id>>, r.out)
    /\ UNCHANGED <<opened, embedding_dim, storage, disk, latest, uuids, files,
                   max_capacity>>

\* the queue of the ghost after get_tenant(tenant_id)
TouchedAfter(tenant_id) ==
    IF tenant_id \in DOMAIN tenants
    THEN Append(RemoveFirst(touched, tenant_id), tenant_id)
    ELSE touched

\* if let Some(db) = manager.get_tenant(tenant_id) { db.upsert(datas) }
TenantUpsert(tenant_id, datas) ==
    /\ \E r \in {get_tenant([tenants |-> tenants, lru |-> lru], tenant_id)} :
          /\ lru' = r.lru
          /\ touched' = TouchedAfter(tenant_id)
          /\ IF r.out = None
             THEN /\ tenants' = r.tenants
                  /\ ret' = Call("tenant_upsert", FALSE, <<tenant_id>>, None)
             ELSE \E u \in {main_upsert(r.out[1], datas)} :
                     /\ tenants' = [r.tenants EXCEPT ![tenant_id] = u.st]
                     /\ ret' = Call("tenant_upsert", TRUE, <<tenant_id>>,
                                    <<[updates |-> u.updates,
                                       inserts |-> u.inserts]>>)
    /\ UNCHANGED <<opened, embedding_dim, storage, disk, latest, uuids, files,
                   max_capacity>>

\* if let Some(db) = manager.get_tenant(tenant_id) { db.save() }
TenantSave(tenant_id) ==
    /\ \E r \in {get_tenant([tenants |-> tenants, lru |-> lru], tenant_id)} :
          /\ lru' = r.lru
          /\ tenants' = r.tenants
          /\ touched' = TouchedAfter(tenant_id)
          /\ IF r.out = None
             THEN /\ files' = files
                  /\ ret' = Call("tenant_save", FALSE, <<tenant_id>>, None)
             ELSE /\ files' = Insert(files, tenant_id, main_save(r.out[1]))
                  /\ ret' = Call("tenant_save", TRUE, <<tenant_id>>, None)
    /\ UNCHANGED <<opened, embedding_dim, storage, disk, latest, uuids,
                   max_capacity>>

\* the state after NanoVectorDB::new(Dim, path) on a path with no file, or
\* with a file of length 0
InitEngines ==
    /\ disk \in {MissingFile, EmptyFile}
    /\ opened = TRUE
    /\ embedding_dim = Dim
    /\ storage = new(Dim, disk).storage
    /\ latest = << >>
    /\ ret = Call("new", TRUE, Dim, << >>)
    /\ tenants = MultiTenantNew.tenants
    /\ lru = MultiTenantNew.lru
    /\ uuids = 0
    /\ touched = << >>
    /\ files = MultiTenantNew.files

\* the state after NanoVectorDB::new(Dim, path) and
\* MultiTenantNanoVDB::new(Dim, MaxCapacity, storage_dir)
Init == InitEngines /\ max_capacity = MaxCapacity

(***************************************************************************)
(* Spec: upsert, delete and get on a fresh engine, every vector of length  *)
(* Dim and not zero                                                        *)
(***************************************************************************)
Records ==
    {Data("a", E(1), NoFields), Data("a", Ones, Red),
     Data("b", E(2), Red), Data("b", E(1), NoFields)}

UpsertAny == \E datas \in BatchesOf(Records) : Upsert(datas)

DeleteAny == \E ids \in IdListsOf({"a", "b"}) : Delete(ids)

GetAny == \E ids \in IdListsOf({"a", "b"}) : Get(ids)

Next == UpsertAny \/ DeleteAny \/ GetAny

Spec == Init /\ [][Next]_vars

(***************************************************************************)
(* Properties of upsert, delete and get on a fresh engine (Spec)           *)
(***************************************************************************)
\* the records of a batch whose id is stored in data
Present(data, datas) == {i \in 1..Len(datas) : datas[i].id \in IdsOf(data)}

\* the last record of a batch that has the id
LastWithId(datas, id) ==
    datas[CHOOSE i \in 1..Len(datas) :
            /\ datas[i].id = id
            /\ \A j \in (i + 1)..Len(datas) : datas[j].id # id]

InSeq(x, s) == \E i \in 1..Len(s) : s[i] = x

\* C1: from an engine opened on a missing or empty file, after any upserts
\* and deletes of non-zero vectors of length embedding_dim,
\* vector_bytes_len() = len() * embedding_dim
C1_MatrixLenFresh ==
    opened => vector_bytes_len(storage) = len(storage) * embedding_dim

\* C1 happens: a delete has left records behind that an upsert had updated
C1_Witness ==
    /\ ret.op = "delete"
    /\ len(storage) >= 1
    /\ \E i \in 1..len(storage) : latest[i] # storage.data[i].vector
                                  /\ normalize(latest[i]).vec # storage.data[i].vector

\* C3: matrix chunk i is the normalized form of the vector most recently
\* upserted for records[i], so that delete leaves the stored vector of every
\* surviving record unchanged, also one an earlier upsert had updated
C3_ChunkIsLatestVector ==
    opened =>
        \A i \in 1..len(storage) :
            Chunk(storage.matrix, embedding_dim, i - 1) = normalize(latest[i]).vec

\* C4: an upsert of a stored id replaces the stored record's vector and
\* fields by the new ones: a following get(id) returns the new fields, and
\* the chunk a following query scores is the new vector, normalized
C4_UpsertReplaces ==
    (ret.op = "upsert" /\ ret.ok) =>
        \A i \in 1..Len(ret.out[1]) :
            LET id == ret.out[1][i]
                given == LastWithId(ret.args, id)
                got == get(storage, <<id>>)
                pos == PositionOfId(storage.data, id, 1)
            IN /\ Len(got) >= 1
               /\ got[1].fields = given.fields
               /\ Chunk(storage.matrix, embedding_dim, pos - 1)
                    = normalize(given.vector).vec

\* C5: an upsert of a record whose id is stored lists the id in updated_ids
\* and not in inserted_ids, leaves the record where it is in the store, and
\* adds to len() only the records whose id was not stored
C5_UpdateKeepsLenAndPosition ==
    [][(ret'.op = "upsert" /\ ret'.ok) =>
         /\ len(storage') = len(storage)
              + Len(ret'.args) - Cardinality(Present(storage.data, ret'.args))
         /\ \A i \in Present(storage.data, ret'.args) :
              /\ InSeq(ret'.args[i].id, ret'.out[1])
              /\ ~InSeq(ret'.args[i].id, ret'.out[2])
         /\ \A p \in 1..len(storage) : storage'.data[p].id = storage.data[p].id
      ]_vars

\* C5 happens: an upsert has updated a record that is not the first of the
\* store
C5_Witness ==
    /\ ret.op = "upsert"
    /\ ret.ok
    /\ ret.out[1] # << >>
    /\ PositionOfId(storage.data, ret.out[1][1], 1) > 1

\* the ids of the records of a batch that were, or were not, stored in data,
\* in the order of the batch
IdsGiven(data, datas, stored) ==
    LET Wanted(d) == (d.id \in IdsOf(data)) = stored
    IN IdSeq(SelectSeq(datas, Wanted))

\* C11: a successful upsert lists in updated_ids the ids of its records that
\* were stored before the call and in inserted_ids the ids that were not,
\* each in the order given, and appends the new records, with their fields,
\* at the end of the store in that order
C11_UpsertClassifies ==
    [][(ret'.op = "upsert" /\ ret'.ok) =>
         /\ ret'.out[1] = IdsGiven(storage.data, ret'.args, TRUE)
         /\ ret'.out[2] = IdsGiven(storage.data, ret'.args, FALSE)
         /\ IdSeq(storage'.data) = IdSeq(storage.data) \o ret'.out[2]
         /\ \A k \in 1..Len(ret'.out[2]) :
              \E i \in 1..Len(ret'.args) :
                 /\ ret'.args[i].id = ret'.out[2][k]
                 /\ storage'.data[len(storage) + k].fields = ret'.args[i].fields
      ]_vars

\* C11 happens: a batch of a stored id and, twice, an id that was not stored
\* before the call has been upserted
C11_Witness ==
    /\ ret.op = "upsert"
    /\ ret.ok
    /\ Len(ret.args) = 2
    /\ \/ /\ Len(ret.out[2]) = 2
          /\ ret.out[2][1] = ret.out[2][2]
       \/ /\ Len(ret.out[1]) = 1
          /\ Len(ret.out[2]) = 1
          /\ ret.args[1].id = ret.out[1][1]

\* C12: no two stored records have the same id
C12_UniqueIds ==
    \A i, j \in 1..len(storage) :
       storage.data[i].id = storage.data[j].id => i = j

\* C14: a delete of ids that are all absent leaves the records, their
\* order, the matrix and additional_data as they were, and a second
\* delete of the same ids changes nothing
C14_DeleteIdempotent ==
    [][ret'.op = "delete" =>
         /\ (\A i \in 1..Len(ret'.args) : ret'.args[i] \notin IdsOf(storage.data))
               => storage' = storage
         /\ delete(storage', ret'.args) = storage'
      ]_vars

\* the positions of the stored records whose id occurs in ids
PositionsOf(data, ids) ==
    {p \in 1..Len(data) : \E i \in 1..Len(ids) : ids[i] = data[p].id}

\* C15: get(ids) returns the stored records whose id occurs in ids and no
\* other, each once, in the order of the store
C15_GetInStoreOrder ==
    ret.op = "get" =>
       LET P == PositionsOf(storage.data, ret.args)
       IN /\ ret.ok
          /\ Len(ret.out) = Cardinality(P)
          /\ \A p \in P :
                ret.out[Cardinality({q \in P : q <= p})] = storage.data[p]

\* C15 happens: get has been asked for two stored ids in the reverse of their
\* store order, or for one stored id twice
C15_Witness ==
    /\ ret.op = "get"
    /\ Len(ret.args) = 2
    /\ \/ /\ Len(ret.out) = 2
          /\ ret.out[1].id = ret.args[2]
          /\ ret.out[2].id = ret.args[1]
          /\ ret.args[1] # ret.args[2]
       \/ /\ ret.args[1] = ret.args[2]
          /\ Len(ret.out) = 1

\* the records of the batch datas whose id is not among the stored data
NewOf(data, datas) ==
    LET IsNew(d) == d.id \notin IdsOf(data)
    IN SelectSeq(datas, IsNew)

QueryRecords ==
    {Data("a", E(1), Red), Data("b", Ones, Blue), Data("c", E(1), Blue)}

\* the probes, thresholds and filters given to query
Probes == {E(1), Ones}

Thresholds == {None, Some((9 * Scale) \div 10)}

AllIds == {"a", "b", "c"}

AllFields == {NoFields, Red, Blue}

OnlyRed == [ids |-> AllIds, fields |-> {Red}]

NotA == [ids |-> {"b", "c"}, fields |-> AllFields]

RejectAll == [ids |-> {}, fields |-> {}]

Filters == {None, Some(OnlyRed), Some(NotA), Some(RejectAll)}

InitQuery == Init /\ disk = MissingFile

UpsertOne == \E r \in QueryRecords : Upsert(<<r>>)

DeleteOne == \E id \in AllIds : Delete(<<id>>)

QueryAny ==
    \E q \in Probes, top_k \in 0..MaxTopK, better_than \in Thresholds,
       filter \in Filters :
        \E sched \in Schedules(NumChunks(storage.matrix, embedding_dim)) :
            Query(q, top_k, better_than, filter, sched)

NextQuery == UpsertOne \/ DeleteOne \/ QueryAny

SpecQuery == InitQuery /\ [][NextQuery]_vars

(***************************************************************************)
(* Properties of query (SpecQuery)                                         *)
(***************************************************************************)
\* the arguments and the results of the query that ret holds
QProbe == ret.args[1]

QTopK == ret.args[2]

QBetterThan == ret.args[3]

QFilter == ret.args[4]

QSched == ret.args[5]

QScores == [i \in 1..Len(ret.out) |-> ret.out[i][F_METRICS]]

QIds == [i \in 1..Len(ret.out) |-> ret.out[i][F_ID]]

QueryReturned == ret.op = "query" /\ ret.ok

\* the score of stored record p (1-based) against the probe q
ScoreOf(p, q) ==
    dot_product(Chunk(storage.matrix, embedding_dim, p - 1), normalize(q).vec).score

\* the stored records that the filter accepts and whose score reaches the
\* threshold
Survives(p, q, better_than, filter) ==
    /\ filter = None \/ Accepts(filter[1], storage.data[p])
    /\ better_than = None \/ ScoreOf(p, q) >= better_than[1]

RECURSIVE InsertDesc(_, _)
InsertDesc(x, s) ==
    IF s = << >> THEN <<x>>
    ELSE IF x >= Head(s) THEN <<x>> \o s
    ELSE <<Head(s)>> \o InsertDesc(x, Tail(s))

RECURSIVE SortDesc(_)
\* the numbers of s, greatest first
SortDesc(s) == IF s = << >> THEN << >> ELSE InsertDesc(Head(s), SortDesc(Tail(s)))

RECURSIVE SurvivingScores(_, _, _, _)
\* the scores of the surviving records p..
SurvivingScores(p, q, better_than, filter) ==
    IF p > len(storage) THEN << >>
    ELSE IF Survives(p, q, better_than, filter)
    THEN <<ScoreOf(p, q)>> \o SurvivingScores(p + 1, q, better_than, filter)
    ELSE SurvivingScores(p + 1, q, better_than, filter)

\* the reference: every surviving score, sorted, cut to the first top_k
ReferenceTopK ==
    LET all == SortDesc(SurvivingScores(1, QProbe, QBetterThan, QFilter))
    IN SubSeq(all, 1, Min(QTopK, Len(all)))

\* C7: query returns at most top_k results (none when top_k = 0), ordered by
\* non-increasing score
C7_AtMostKSortedDesc ==
    QueryReturned =>
        /\ Len(ret.out) <= QTopK
        /\ \A i \in 1..(Len(ret.out) - 1) : QScores[i] >= QScores[i + 1]

\* C7 happens: a store of more than top_k records, of which query returned
\* top_k with different scores
C7_Witness ==
    /\ QueryReturned
    /\ QTopK >= 2
    /\ len(storage) > QTopK
    /\ Len(ret.out) = QTopK
    /\ QScores[1] > QScores[2]

\* C8: the scores query returns are, as a multiset, those of the top_k
\* highest-scoring records among the ones that pass the filter and reach
\* better_than (all of them when there are fewer), however the records are
\* split among workers and the partial heaps merged
C8_ExactTopK ==
    QueryReturned => SortDesc(QScores) = ReferenceTopK

\* C8 happens: the records were split among workers, more of them survived
\* than top_k, and the best one was not the first of the store
C8_Witness ==
    /\ QueryReturned
    /\ QSched # << >>
    /\ QTopK >= 1
    /\ Len(SurvivingScores(1, QProbe, QBetterThan, QFilter)) > QTopK
    /\ Len(ret.out) = QTopK
    /\ ScoreOf(1, QProbe) < QScores[1]

\* C9: with better_than supplied, every score returned is >= better_than,
\* also when fewer than top_k records reach it
C9_ScoresReachThreshold ==
    (QueryReturned /\ QBetterThan # None) =>
        \A i \in 1..Len(ret.out) : QScores[i] >= QBetterThan[1]

\* C9 happens: a record the filter accepts scored below better_than, and
\* fewer than top_k records were returned
C9_Witness ==
    /\ QueryReturned
    /\ QBetterThan # None
    /\ Len(ret.out) >= 1
    /\ Len(ret.out) < QTopK
    /\ \E p \in 1..len(storage) :
          /\ Survives(p, QProbe, None, QFilter)
          /\ ScoreOf(p, QProbe) < QBetterThan[1]

\* C10: with a filter supplied, every result is a record the filter accepts,
\* and a filter that rejects every record gives no result, whatever top_k
C10_FilterRespected ==
    (QueryReturned /\ QFilter # None) =>
        /\ \A i \in 1..Len(ret.out) :
              \E p \in 1..len(storage) :
                  /\ storage.data[p].id = QIds[i]
                  /\ Accepts(QFilter[1], storage.data[p])
        /\ (\A p \in 1..len(storage) : ~Accepts(QFilter[1], storage.data[p]))
              => ret.out = << >>

\* C10 happens: the filter rejected a record that scores higher than one of
\* the results
C10_Witness ==
    /\ QueryReturned
    /\ QFilter # None
    /\ ret.out # << >>
    /\ Len(ret.out) < QTopK
    /\ \E p \in 1..len(storage) :
          /\ ~Accepts(QFilter[1], storage.data[p])
          /\ Survives(p, QProbe, QBetterThan, None)
          /\ ScoreOf(p, QProbe) > QScores[Len(ret.out)]

\* the ids that query returns on the engine as it is, for the arguments
\* of the query that ret holds and the schedule sched
IdsUnder(sched) ==
    LET out == query(embedding_dim, storage, QProbe, QTopK, QBetterThan,
                     QFilter, sched).out
    IN [i \in 1..Len(out) |-> out[i][F_ID]]

\* C31: for one engine state and the same arguments, query returns the
\* same list of ids for every split of the records among workers and
\* every order of the merges, also when candidates tie on the score at
\* the top_k boundary
C31_SameIdsUnderEverySchedule ==
    QueryReturned =>
        \A sched \in Schedules(NumChunks(storage.matrix, embedding_dim)) :
            IdsUnder(sched) = QIds

(***************************************************************************)
(* SpecStore: the engine with its storage file: save, and new on the same  *)
(* path, among upserts and deletes                                         *)
(***************************************************************************)
StoreRecords == {Data("a", E(1), Red), Data("b", Ones, NoFields)}

AdditionalDatas == {<< >>, [version |-> "1.0.0"]}

UpsertStored == \E r \in StoreRecords : Upsert(<<r>>)

DeleteStored == \E id \in {"a", "b"} : Delete(<<id>>)

StoreAdditionalDataAny == \E data \in AdditionalDatas : StoreAdditionalData(data)

Reopen == Open(Dim)

NextStore ==
    UpsertStored \/ DeleteStored \/ StoreAdditionalDataAny \/ Save \/ Reopen

SpecStore == Init /\ [][NextStore]_vars

\* C2: matrix.length = records.count * embedding_dim at all times, also in
\* an engine opened from a snapshot that save wrote, after any upserts and
\* deletes
C2_MatrixLenAlways ==
    opened => Len(storage.matrix) = Len(storage.data) * embedding_dim

\* the fields of the stored records, in store order
FieldSeq(data) == [i \in 1..Len(data) |-> data[i].fields]

\* C6: save followed by new on the same path reproduces the state: the ids
\* in their order, the fields of each record, the matrix and
\* additional_data, with no error; so too for an emptied engine
C6_SaveOpenRoundTrip ==
    [][(ret.op = "save" /\ ret'.op = "new") =>
         /\ opened'
         /\ IdSeq(storage'.data) = IdSeq(storage.data)
         /\ FieldSeq(storage'.data) = FieldSeq(storage.data)
         /\ storage'.matrix = storage.matrix
         /\ storage'.additional_data = storage.additional_data
      ]_vars

\* C34: new on a path with no file, or with a file of length 0, gives
\* without error an engine with len() = 0, is_empty() and a matrix of
\* length 0, and leaves the path as it was; and in every state is_empty()
\* holds exactly when len() = 0
C34_NoFileOpensEmpty ==
    [][/\ is_empty(storage) <=> len(storage) = 0
       /\ is_empty(storage') <=> len(storage') = 0
       /\ (ret'.op = "new" /\ disk.state \in {"missing", "empty"}) =>
            /\ ret'.ok
            /\ opened'
            /\ len(storage') = 0
            /\ is_empty(storage')
            /\ vector_bytes_len(storage') = 0
            /\ storage'.embedding_dim = ret'.args
            /\ disk' = disk
      ]_vars

\* C34 happens: new has opened a file of length 0 that no save has
\* written to, and the engine is empty
C34_Witness ==
    /\ ret.op = "new"
    /\ ret.ok
    /\ disk.state = "empty"
    /\ opened
    /\ is_empty(storage)
    /\ vector_bytes_len(storage) = 0

(***************************************************************************)
(* SpecOpen: new on the storage file with the dimension that wrote it or   *)
(* with another one, among upserts, deletes and saves                      *)
(***************************************************************************)
\* the dimensions given to new
OpenDims == {Dim, Dim + 1}

OpenAny == \E dim \in OpenDims : Open(dim)

NextOpen == UpsertStored \/ DeleteStored \/ Save \/ OpenAny

SpecOpen == Init /\ [][NextOpen]_vars

\* the DataBase that new has read from the storage file
Decoded == DeserializeDataBase(disk.doc).db

\* C16: new(embedding_dim, path) on a non-empty file whose decoded matrix
\* length differs from records.count * embedding_dim produces no engine and
\* fails with an error that carries the expected and the actual length
C16_CorruptStoreRejected ==
    (/\ ret.op = "new"
     /\ disk.state = "json"
     /\ Len(Decoded.matrix) # Len(Decoded.data) * ret.args)
       => /\ ~ret.ok
          /\ ~opened
          /\ ret.out = <<"Matrix size mismatch",
                         Len(Decoded.data) * ret.args, Len(Decoded.matrix)>>

\* C25: after a successful new(embedding_dim, path) on a file with records the
\* matrix length is records.count * embedding_dim for the embedding_dim
\* given, and the dimension stored in the file is the given one
C25_OpenedWithGivenDim ==
    (/\ ret.op = "new"
     /\ ret.ok
     /\ disk.state = "json"
     /\ Decoded.data # << >>)
       => /\ Len(storage.matrix) = Len(storage.data) * embedding_dim
          /\ Decoded.embedding_dim = ret.args

(***************************************************************************)
(* SpecOps: upsert, delete, get and query on a fresh engine, the zero      *)
(* vector among the vectors given                                          *)
(***************************************************************************)
Zero == [j \in 1..Dim |-> 0]

OpsRecords ==
    {Data("a", E(1), Red), Data("b", E(2), NoFields), Data("c", Ones, Blue),
     Data("b", Zero, NoFields)}

OpsIds == {"a", "b", "c"}

UpsertOps == \E r \in OpsRecords : Upsert(<<r>>)

DeleteOps == \E ids \in IdListsOf(OpsIds) : Delete(ids)

GetOps == \E ids \in IdListsOf(OpsIds) : Get(ids)

QueryOps ==
    \E q \in Probes \cup {Zero} :
       \E sched \in Schedules(NumChunks(storage.matrix, embedding_dim)) :
          Query(q, MaxRecords, None, None, sched)

NextOps == UpsertOps \/ DeleteOps \/ GetOps \/ QueryOps

SpecOps == InitQuery /\ [][NextOps]_vars

\* the ids of the records that a get or a query returned
ReturnedIds(r) ==
    IF r.op = "get" THEN {r.out[i].id : i \in 1..Len(r.out)}
    ELSE {r.out[i][F_ID] : i \in 1..Len(r.out)}

\* the positions of the stored records whose id does not occur in ids
SurvivorsOf(data, ids) == (1..Len(data)) \ PositionsOf(data, ids)

\* C13: delete(ids) removes the records whose id is in ids and no other and
\* keeps the others in their order; get and query return stored ids only,
\* and an id that is not stored becomes stored by an upsert of it only
C13_DeleteRemovesExactly ==
    [][/\ ret'.op = "delete" =>
            LET K == SurvivorsOf(storage.data, ret'.args)
            IN /\ len(storage') = Cardinality(K)
               /\ \A p \in K :
                     storage'.data[Cardinality({q \in K : q <= p})]
                        = storage.data[p]
       /\ (ret'.op \in {"get", "query"} /\ ret'.ok) =>
             ReturnedIds(ret') \subseteq IdsOf(storage.data)
       /\ \A id \in IdsOf(storage'.data) \ IdsOf(storage.data) :
             /\ ret'.op = "upsert"
             /\ \E i \in 1..Len(ret'.args) : ret'.args[i].id = id
      ]_vars

\* C13 happens: a delete has left two records, the later inserted of them
\* first in the alphabet
C13_Witness ==
    /\ ret.op = "delete"
    /\ ret.args[1] \notin IdsOf(storage.data)
    /\ IdSeq(storage.data) \in {<<"c", "a">>, <<"c", "b">>, <<"b", "a">>}

\* the vector of the call is at or below EPSILON in its sum of squares
GivenZero(r) ==
    \/ /\ r.op = "upsert"
       /\ \E i \in 1..Len(r.args) : ~FGt(SumSq(r.args[i].vector, 1), EPSILON)
    \/ /\ r.op = "query"
       /\ ~FGt(SumSq(r.args[1], 1), EPSILON)

\* C17: an upsert or a query given a zero vector returns a DomainError as
\* an error value.  upsert returns Ok on every path that returns and query
\* returns a Vec: ok = FALSE with no value is the unwinding of the panic of
\* normalize
C17_ZeroVectorIsErrorValue ==
    GivenZero(ret) => (~ret.ok /\ ret.out = <<"DomainError">>)

(***************************************************************************)
(* SpecBatch: upsert of batches of one or two records, the zero vector     *)
(* among their vectors, and delete, on a fresh engine                      *)
(***************************************************************************)
BatchRecords ==
    {Data("a", E(1), Red), Data("a", E(2), Blue), Data("b", E(2), NoFields),
     Data("a", Zero, Red), Data("b", Zero, NoFields)}

UpsertBatch == \E datas \in BatchesOf(BatchRecords) : Upsert(datas)

DeleteBatch == \E id \in {"a", "b"} : Delete(<<id>>)

NextBatch == UpsertBatch \/ DeleteBatch

SpecBatch == InitQuery /\ [][NextBatch]_vars

\* the records of the batch datas in the order upsert processes them: those
\* whose id is stored, then the others
Processed(data, datas) ==
    LET WasThere(d) == d.id \in IdsOf(data)
    IN SelectSeq(datas, WasThere) \o NewOf(data, datas)

\* the vector of d cannot be normalized
Unnormalizable(d) == ~FGt(SumSq(d.vector, 1), EPSILON)

RECURSIVE FirstUnnormalizable(_, _)
\* the position from i on of the first record of recs whose vector cannot
\* be normalized, 0 when there is none
FirstUnnormalizable(recs, i) ==
    IF i > Len(recs) THEN 0
    ELSE IF Unnormalizable(recs[i]) THEN i
    ELSE FirstUnnormalizable(recs, i + 1)

RECURSIVE MutatedBy(_, _, _, _, _, _)
\* st after the mutations of the records i..last of recs, the first updates
\* of them updates of a stored record and the others inserts
MutatedBy(dim, st, recs, i, last, updates) ==
    IF i > last THEN st
    ELSE LET v == normalize(recs[i].vector).vec
             p == PositionOfId(st.data, recs[i].id, 1)
         IN IF i <= updates
            THEN MutatedBy(dim,
                    [st EXCEPT !.matrix =
                        [j \in 1..Len(@) |->
                            IF j > (p - 1) * dim /\ j <= p * dim
                            THEN v[j - (p - 1) * dim] ELSE @[j]]],
                    recs, i + 1, last, updates)
            ELSE MutatedBy(dim,
                    [st EXCEPT !.matrix = @ \o v,
                               !.data = Append(@, Data(recs[i].id, v,
                                                       recs[i].fields))],
                    recs, i + 1, last, updates)

\* C27: when upsert fails at a record whose vector cannot be normalized,
\* the mutations of the records it processed before that one remain,
\* nothing is applied for that record nor for those it would have processed
\* after it, and matrix.length = records.count * embedding_dim
C27_FailedBatchKeepsEarlier ==
    [][(ret'.op = "upsert" /\ ~ret'.ok) =>
         LET recs == Processed(storage.data, ret'.args)
             failing == FirstUnnormalizable(recs, 1)
             updates == Len(recs) - Len(NewOf(storage.data, ret'.args))
         IN /\ failing > 0
            /\ storage' = MutatedBy(embedding_dim, storage, recs, 1,
                                    failing - 1, updates)
            /\ Len(storage'.matrix) = Len(storage'.data) * embedding_dim
      ]_vars

\* C27 happens: a batch of two records has failed at its second record
\* after the mutation of its first, an update or an insert
C27_Witness ==
    /\ ret.op = "upsert"
    /\ ~ret.ok
    /\ Len(ret.args) = 2
    /\ Unnormalizable(ret.args[2])
    /\ ~Unnormalizable(ret.args[1])
    /\ \E i \in 1..Len(storage.data) :
          /\ storage.data[i].id = ret.args[1].id
          /\ SubSeq(storage.matrix, (i - 1) * embedding_dim + 1,
                    i * embedding_dim) = normalize(ret.args[1].vector).vec

(***************************************************************************)
(* SpecLengths: upsert of records whose vector is shorter or longer than   *)
(* embedding_dim, among records of the right length, and delete            *)
(***************************************************************************)
\* a vector of Dim - 1 floats and one of Dim + 1
Short == [j \in 1..(Dim - 1) |-> Scale]

Long == [j \in 1..(Dim + 1) |-> IF j = 1 THEN Scale ELSE 0]

LengthRecords ==
    {Data("a", E(1), Red), Data("b", E(2), NoFields), Data("a", Long, Red),
     Data("b", Short, NoFields), Data("c", Long, Blue)}

UpsertLengths == \E r \in LengthRecords : Upsert(<<r>>)

DeleteLengths == \E id \in OpsIds : Delete(<<id>>)

NextLengths == UpsertLengths \/ DeleteLengths

SpecLengths == InitQuery /\ [][NextLengths]_vars

\* C32: after an upsert that was given a record whose vector length is not
\* embedding_dim, matrix.length = records.count * embedding_dim and no
\* stored record has a vector of another length than embedding_dim
C32_WrongLengthNotStored ==
    (/\ ret.op = "upsert"
     /\ \E i \in 1..Len(ret.args) : Len(ret.args[i].vector) # embedding_dim)
       => /\ Len(storage.matrix) = Len(storage.data) * embedding_dim
          /\ \A p \in 1..Len(storage.data) :
                Len(storage.data[p].vector) = embedding_dim

(***************************************************************************)
(* SpecServe: query on the engines that upsert, delete, save and new on    *)
(* the same path build                                                     *)
(***************************************************************************)
ServeRecords ==
    {Data("a", E(1), Red), Data("a", E(2), Red), Data("b", Ones, NoFields)}

UpsertServe == \E r \in ServeRecords : Upsert(<<r>>)

QueryServe ==
    \E q \in {E(1), E(2)} : Query(q, MaxRecords, None, None, << >>)

NextServe == UpsertServe \/ DeleteStored \/ Save \/ Reopen \/ QueryServe

SpecServe == Init /\ [][NextServe]_vars

\* result i of the query that ret holds, without the two reserved keys
QFields(i) ==
    [k \in DOMAIN ret.out[i] \ {F_ID, F_METRICS} |-> ret.out[i][k]]

\* C33: in every state that upsert, delete, save and new reach, query
\* yields valid positions only, and every result has the id and the fields
\* of one stored record with the score of that record: the dot product of
\* the normalized probe and the vector last upserted for it
C33_ResultIsOneRecord ==
    ret.op = "query" =>
        /\ ret.ok
        /\ \A i \in 1..Len(ret.out) :
              \E p \in 1..Len(storage.data) :
                  /\ storage.data[p].id = QIds[i]
                  /\ storage.data[p].fields = QFields(i)
                  /\ (p <= Len(latest) /\ latest[p] # << >>) =>
                        QScores[i] = dot_product(normalize(latest[p]).vec,
                                                 normalize(QProbe).vec).score

(***************************************************************************)
(* SpecTenants: create_tenant and get_tenant on a manager of capacity      *)
(* MaxCapacity; get_tenant is given the ids created so far and the id 0,   *)
(* which no tenant has                                                     *)
(***************************************************************************)
GetTenantAny == \E tenant_id \in 0..uuids : GetTenant(tenant_id)

NextTenants == CreateTenant \/ GetTenantAny

SpecTenants == InitQuery /\ [][NextTenants]_vars

\* the live in-memory tenant handles
Live == DOMAIN tenants

\* the tenants whose handle has been evicted: created and no longer live
Evicted == (1..uuids) \ Live

\* C18: after any create_tenant and get_tenant calls the number of live
\* handles is at most max_capacity
C18_LiveAtMostCapacity == Cardinality(Live) <= max_capacity

\* C19: a create_tenant that brings the number of live handles above
\* max_capacity evicts the live tenant least recently touched (created, or
\* got by get_tenant) and removes no other handle
C19_EvictsLeastRecentlyTouched ==
    [][(ret'.op = "create_tenant"
        /\ Cardinality(Live \cup {ret'.out[1].tenant_id}) > max_capacity) =>
          DOMAIN tenants'
             = (Live \cup {ret'.out[1].tenant_id}) \ {Head(Append(touched, ret'.out[1].tenant_id))}
      ]_vars

\* C20: get_tenant(id) on a live tenant returns its handle and leaves it
\* the most recently used of the queue; on an evicted tenant it returns
\* nothing, and no call makes an evicted tenant live again
C20_GetTenantTouchesOrMisses ==
    [][/\ ret'.op = "get_tenant" =>
            /\ ret'.args[1] \in Live =>
                  /\ ret'.out = Some(tenants[ret'.args[1]])
                  /\ lru' # << >> /\ lru'[Len(lru')] = ret'.args[1]
                  /\ touched' # << >> /\ touched'[Len(touched')] = ret'.args[1]
            /\ ret'.args[1] \in Evicted => ret'.out = None
            /\ tenants' = tenants
       /\ \A id \in Evicted : id \notin DOMAIN tenants'
      ]_vars

\* C20 happens: get_tenant has been given an evicted tenant while another,
\* live one that it was given before is the oldest of the queue no more
C20_Witness ==
    /\ ret.op = "get_tenant"
    /\ ret.args[1] \in Evicted
    /\ ret.out = None
    /\ Live # {}
    /\ \E i \in 1..Len(touched) : \E j \in 1..Len(touched) :
          i < j /\ touched[i] > touched[j]

\* C28: after any create_tenant and get_tenant calls the queue holds the
\* ids of the live handles and no other id, each once
C28_QueueIsLiveSet ==
    /\ {lru[i] : i \in 1..Len(lru)} = Live
    /\ \A i, j \in 1..Len(lru) : lru[i] = lru[j] => i = j

\* C29: get_tenant(id) for an id with no live handle, evicted or never
\* given out, leaves the tenant map and the queue as they were
C29_MissLeavesCacheUnchanged ==
    [][(ret'.op = "get_tenant" /\ ret'.args[1] \notin Live) =>
         /\ tenants' = tenants
         /\ lru' = lru
      ]_vars

(***************************************************************************)
(* SpecCapacity: create_tenant and get_tenant on a manager of any capacity *)
(* from 1 to MaxCapacity                                                   *)
(***************************************************************************)
\* the state after MultiTenantNanoVDB::new(Dim, max_capacity, storage_dir)
InitCapacity ==
    /\ InitEngines
    /\ disk = MissingFile
    /\ max_capacity \in 1..MaxCapacity

SpecCapacity == InitCapacity /\ [][NextTenants]_vars

\* C30: with max_capacity >= 1 the tenant that create_tenant has created
\* is live when the call returns, and get_tenant on the returned id yields
\* its handle
C30_CreatedTenantIsLive ==
    [][(ret'.op = "create_tenant" /\ max_capacity >= 1) =>
         /\ ret'.out[1].tenant_id \in DOMAIN tenants'
         /\ get_tenant([tenants |-> tenants', lru |-> lru'],
                       ret'.out[1].tenant_id).out
               = Some(main_new(Dim, MissingFile).storage)
      ]_vars

\* C30 happens: on a manager of capacity 1 create_tenant has evicted a
\* tenant while the queue held an id that get_tenant did not find
C30_Witness ==
    /\ ret.op = "create_tenant"
    /\ max_capacity = 1
    /\ ret.out[1].tenant_id \in Live
    /\ Evicted # {}
    /\ \E i \in 1..Len(lru) : lru[i] = 0

(***************************************************************************)
(* SpecSelector: the bounded heap of query and into_sorted_vec on          *)
(* candidates of every score, NaN among them, ordered by ScoredIndex::cmp  *)
(***************************************************************************)
\* the scores of the candidates
SelectorScores == {NaN, 0, Scale \div 2, Scale}

\* the lists of one to MaxRecords scores
ScoreLists == UNION {[1..n -> SelectorScores] : n \in 1..MaxRecords}

RECURSIVE PushAll(_, _, _, _)
\* the candidates i.. of scores pushed on the heap h as the fold and the
\* reduce closures of query push one: push, and pop above top_k
PushAll(h, scores, i, top_k) ==
    IF i > Len(scores) THEN h
    ELSE PushAll(BoundedPush(h, ScoredIndex(scores[i], i - 1), top_k),
                 scores, i + 1, top_k)

\* the selector on the candidates of the given scores: the bounded heap,
\* then heap.into_sorted_vec()
SelectTopK(scores, top_k) ==
    /\ ret' = Call("select", TRUE, <<scores, top_k>>,
                   into_sorted_vec(PushAll(<< >>, scores, 1, top_k)))
    /\ UNCHANGED <<opened, embedding_dim, storage, disk, latest, mtvars>>

SelectAny ==
    \E scores \in ScoreLists, top_k \in 1..MaxTopK : SelectTopK(scores, top_k)

NextSelector == SelectAny

SpecSelector == InitQuery /\ [][NextSelector]_vars

\* how many of the scores s[1..Len(s)] are numbers
Reals(s) == Cardinality({i \in 1..Len(s) : ~IsNaN(s[i])})

C22_FileIsLastSave ==
    [][/\ disk' # disk => (ret'.op = "save" /\ ret'.ok)
       /\ (ret'.op = "new" /\ disk.state = "json") =>
             /\ opened'
             /\ SerializeDataBase(storage') = disk.doc
      ]_vars

\* C23: store_additional_data(m) makes get_additional_data() return m and
\* changes no record and no matrix element; upsert and delete leave
\* additional_data as it was
C23_AdditionalDataOrthogonal ==
    [][/\ ret'.op = "store_additional_data" =>
             /\ get_additional_data(storage') = ret'.args
             /\ storage'.data = storage.data
             /\ storage'.matrix = storage.matrix
       /\ ret'.op \in {"upsert", "delete"} =>
             get_additional_data(storage') = get_additional_data(storage)
      ]_vars

\* C23 happens: with records stored, the empty map has replaced the
\* additional_data that the last save wrote
C23_Witness ==
    /\ ret.op = "store_additional_data"
    /\ ret.args = << >>
    /\ storage.data # << >>
    /\ disk.state = "json"
    /\ disk.doc.additional_data # None

(***************************************************************************)
(* SpecTenantFiles: create_tenant among upserts and saves on the engines   *)
(* that get_tenant hands out                                               *)
(***************************************************************************)
TenantRecords == {Data("a", E(1), NoFields)}

\* the tenants whose engine is used: those created while the cache had room
Worked == 1..Min(uuids, MaxCapacity)

TenantUpsertAny ==
    \E tenant_id \in Worked, r \in TenantRecords : TenantUpsert(tenant_id, <<r>>)

TenantSaveAny == \E tenant_id \in Worked : TenantSave(tenant_id)

NextTenantFiles == CreateTenant \/ TenantUpsertAny \/ TenantSaveAny

SpecTenantFiles == InitQuery /\ [][NextTenantFiles]_vars

\* C24: an eviction removes the handle of the tenant from memory and no
\* more: no tenant file is deleted or written, and the engine of every
\* tenant that stays live is as it was
C24_EvictionKeepsFiles ==
    [][(\E id \in DOMAIN tenants : id \notin DOMAIN tenants') =>
          /\ files' = files
          /\ \A id \in DOMAIN tenants \cap DOMAIN tenants' :
                tenants'[id] = tenants[id]
      ]_vars

\* C24 happens: create_tenant has returned while an evicted tenant has a
\* file with a record in it and a live tenant has a record in its engine
C24_Witness ==
    /\ ret.op = "create_tenant"
    /\ \E id \in Evicted :
          id \in DOMAIN files /\ files[id].doc.data # << >>
    /\ \E id \in Live : tenants[id].data # << >>

====
